---- MODULE Spec2Model ----
(***************************************************************************)
(* Session resolution of the OpenCode command-line tool, in its two        *)
(* variants:                                                               *)
(*   - client-cached     (src/unnamed/part_000): one ".session" file per   *)
(*     (host, port) endpoint under SESSIONS_DIR holds the last session ID; *)
(*   - server-authoritative (src/opencode-tool.js): the session is picked  *)
(*     from the server's own list.                                         *)
(* Strings are sequences of one-character strings, so that the file-name   *)
(* derivation, trim() and the parsing of a file name are computed.         *)
(***************************************************************************)
EXTENDS Integers, Sequences, FiniteSets, TLC

(* ---------------------------------------------------------------- bounds *)
\* Session IDs the server may assign during one run (IDs are never reused).
MaxIds == 3
\* Largest updatedAt timestamp of a session (timestamps are 0..MaxTime).
MaxTime == 2

(* ----------------------------------------------------- program constants *)
DEFAULT_PORT == 4096
OTHER_PORT == 4097
DEFAULT_HOST == <<"1", "2", "7", ".", "0", ".", "0", ".", "1">>
\* A second host name; it differs from DEFAULT_HOST only in characters that
\* getSessionFilePath rewrites.
ALT_HOST == <<"1", "2", "7", "_", "0", "_", "0", "_", "1">>

Hosts == {DEFAULT_HOST, ALT_HOST}
Ports == {DEFAULT_PORT, OTHER_PORT}
Inputs == {<<>>, <<"h", "i">>}
\* The invocations of the tool (separate processes of the operating system).
Procs == {1, 2}

(* ---------------------------------------------------------------- values *)
\* null / undefined: a one-element sequence no character string equals.
Null == <<"null">>
Truthy(s) == s # Null /\ s # <<>>

DigitChar == <<"0", "1", "2", "3", "4", "5", "6", "7", "8", "9">>
RECURSIVE Digits(_)
\* `${n}` for a non-negative integer n.
Digits(n) == IF n < 10 THEN <<DigitChar[n + 1]>>
             ELSE Digits(n \div 10) \o <<DigitChar[(n % 10) + 1]>>

\* The n-th ID the server assigns.
SesId(n) == <<"s">> \o Digits(n)
AllIds == {SesId(n) : n \in 1..MaxIds}

Whitespace == {" ", "\n", "\t", "\r"}
RECURSIVE TrimLeft(_)
TrimLeft(s) == IF s # <<>> /\ Head(s) \in Whitespace THEN TrimLeft(Tail(s)) ELSE s
RECURSIVE TrimRight(_)
TrimRight(s) == IF s # <<>> /\ s[Len(s)] \in Whitespace
                THEN TrimRight(SubSeq(s, 1, Len(s) - 1)) ELSE s
\* String.prototype.trim
Trim(s) == TrimRight(TrimLeft(s))

SessionSuffix == <<".", "s", "e", "s", "s", "i", "o", "n">>
EndsWith(s, suf) == Len(s) >= Len(suf)
                    /\ SubSeq(s, Len(s) - Len(suf) + 1, Len(s)) = suf

\* `${host}_${port}`.replace(/[.:]/g, "_") + ".session": the name of the
\* endpoint's file inside SESSIONS_DIR.
getSessionFilePath(host, port) ==
    LET raw == host \o <<"_">> \o Digits(port)
        safeName == [i \in 1..Len(raw) |->
                        IF raw[i] \in {".", ":"} THEN "_" ELSE raw[i]]
    IN  safeName \o SessionSuffix

(* ----------------------------------------------------------------- errors *)
NoError == [thrown |-> FALSE, code |-> "", message |-> <<>>]
Thrown(code, msg) == [thrown |-> TRUE, code |-> code, message |-> msg]
\* A transport failure of a remote call.
ConnRefused == Thrown("ECONNREFUSED", <<"connect ECONNREFUSED">>)
InputRequired == Thrown("", <<"input là bắt buộc">>)
CreateFailed == Thrown("", <<"Không thể tạo session mới">>)
FileMissing == Thrown("ENOENT", <<"ENOENT: no such file or directory">>)

(* ------------------------------------------------------------------ state *)
VARIABLES
    dirExists,  \* SESSIONS_DIR exists
    files,      \* the files of SESSIONS_DIR: file name -> content
    srv,        \* IDs of the sessions the server holds
    nextId,     \* number of the next ID the server assigns
    pc,         \* per invocation: where sendToOpenCode stands
    opts,       \* per invocation: the options of the call
    sessionId,  \* per invocation: the ID read from the file (line 52)
    newId,      \* per invocation: createRes.data?.id (line 69)
    ret,        \* per invocation: what getOrCreateSession returned
    err,        \* per invocation: the error thrown to the caller
    obs,        \* per invocation: what the call did (remote calls and their
                \* answers, writes, the files when it began, the IDs the server
                \* held when it answered about them)
    last,       \* the last operation begun, and the one before it
    owner,      \* per file: the endpoint whose getOrCreateSession wrote it last
    writer      \* per file: the invocation that wrote it last

cacheVars == <<dirExists, files, srv, nextId, pc, opts, sessionId, newId, ret,
               err, obs, last, owner, writer>>

\* Server-authoritative variant (src/opencode-tool.js): no local state.
VARIABLES
    saSessions, \* the server's sessions: ID -> updatedAt
    saNextId,   \* number of the next ID the server assigns
    saPc,       \* where sendToOpenCode stands
    saOpts,     \* the options of the call
    saSession,  \* the session resolveSession returned
    saErr,      \* the error thrown to the caller
    saObs       \* what the call did (remote calls and their answers)

saVars == <<saSessions, saNextId, saPc, saOpts, saSession, saErr, saObs>>
vars == <<cacheVars, saVars>>

NoOpts == [input |-> <<>>, host |-> <<>>, port |-> 0, newSession |-> FALSE]
NoObs == [gets |-> 0, creates |-> 0, writes |-> 0, prompts |-> 0,
          getOut |-> "none", createOut |-> "none",
          had |-> FALSE, files0 |-> <<>>, live |-> {}]
\* An operation of the command line: its arguments, the files before it and
\* its result.
NoOp == [op |-> "none", host |-> <<>>, port |-> 0, before |-> <<>>,
         listed |-> <<>>, deleted |-> FALSE, count |-> 0]
\* The last operation begun (cur) and, of the one before it, which it was and
\* the number it reported (prev).
NoLast == [cur |-> NoOp, prev |-> [op |-> "none", count |-> 0]]
Finished(op) == [cur |-> op, prev |-> [op |-> last.cur.op, count |-> last.cur.count]]

NoSession == [id |-> Null, updatedAt |-> 0]
NoSaOpts == [input |-> <<>>, sessionId |-> Null, newSession |-> FALSE]
NoSaObs == [gets |-> 0, lists |-> 0, creates |-> 0, prompts |-> 0,
            getOut |-> "none", listOut |-> "none", createOut |-> "none",
            present |-> FALSE, listData |-> <<>>, created |-> NoSession]

SAInit ==
    /\ saSessions = <<>>
    /\ saNextId = 1
    /\ saPc = "idle"
    /\ saOpts = NoSaOpts
    /\ saSession = NoSession
    /\ saErr = NoError
    /\ saObs = NoSaObs

CacheInit ==
    /\ dirExists = FALSE
    /\ files = <<>>
    /\ srv = {}
    /\ nextId = 1
    /\ pc = [p \in Procs |-> "idle"]
    /\ opts = [p \in Procs |-> NoOpts]
    /\ sessionId = [p \in Procs |-> Null]
    /\ newId = [p \in Procs |-> Null]
    /\ ret = [p \in Procs |-> Null]
    /\ err = [p \in Procs |-> NoError]
    /\ obs = [p \in Procs |-> NoObs]
    /\ last = NoLast
    /\ owner = <<>>
    /\ writer = <<>>

Init == CacheInit /\ SAInit

(* ------------------------------------------- the server, as the tool sees it *)
\* A response of the SDK client: {data: {id}} or a response without data.
Resp(id) == [data |-> id]
\* res.data?.id
DataId(res) == res.data

\* What client.session.get can answer for an ID: the session when the server
\* holds it, a response without data when it does not, or a thrown error.
GetOutcomes(id) == IF id \in srv THEN {"ok", "throw"} ELSE {"noid", "throw"}
\* What client.session.create can answer.
CreateOutcomes == {"ok", "noid", "throw"}
PromptOutcomes == {"ok", "throw"}

\* fs.writeFileSync(name, content)
WriteFile(fs, name, content) ==
    [k \in (DOMAIN fs) \cup {name} |-> IF k = name THEN content ELSE fs[k]]
\* fs.unlinkSync over a set of names
Unlink(fs, names) == [k \in (DOMAIN fs) \ names |-> fs[k]]

(* ---------------------------------------------- client-cached: send a prompt *)
\* sendToOpenCode up to the first file-system test of getOrCreateSession:
\* the input check, then ensureSessionsDir and the file path.
sendToOpenCode(p, input, host, port, newSession) ==
    /\ pc[p] = "idle"
    /\ opts' = [opts EXCEPT ![p] = [input |-> input, host |-> host,
                                    port |-> port, newSession |-> newSession]]
    /\ IF ~Truthy(input)
       THEN /\ pc' = [pc EXCEPT ![p] = "done"]
            /\ err' = [err EXCEPT ![p] = InputRequired]
            /\ UNCHANGED <<dirExists, obs>>
       ELSE /\ pc' = [pc EXCEPT ![p] = "exists"]
            /\ dirExists' = TRUE
            /\ obs' = [obs EXCEPT ![p].files0 = files]
            /\ UNCHANGED err
    /\ last' = Finished([NoOp EXCEPT !.op = "send", !.host = host, !.port = port,
                                     !.before = files])
    /\ UNCHANGED <<owner, writer>>
    /\ UNCHANGED saVars
    /\ UNCHANGED <<files, srv, nextId, sessionId, newId, ret>>

SessionFile(p) == getSessionFilePath(opts[p].host, opts[p].port)

\* The test of line 51 without fs.existsSync.
useCacheNoExists(forceNew, exists) == ~forceNew
\* The test of line 51 without !forceNew.
useCacheIgnoreForce(forceNew, exists) == exists
\* line 51: if (!forceNew && fs.existsSync(sessionFile))
useCache(forceNew, exists) == ~forceNew /\ exists
gocs_exists(p) ==
    /\ pc[p] = "exists"
    /\ LET exists == SessionFile(p) \in DOMAIN files
       IN  /\ pc' = [pc EXCEPT ![p] =
                       IF useCache(opts[p].newSession, exists)
                       THEN "read" ELSE "create"]
           /\ obs' = [obs EXCEPT ![p].had = exists]
    /\ UNCHANGED <<owner, writer>>
    /\ UNCHANGED saVars
    /\ UNCHANGED <<dirExists, files, srv, nextId, opts, sessionId, newId, ret,
                   err, last>>

\* line 52: fs.readFileSync(sessionFile, "utf-8").trim()
gocs_read(p) ==
    /\ pc[p] = "read"
    /\ IF SessionFile(p) \in DOMAIN files
       THEN /\ sessionId' = [sessionId EXCEPT ![p] = Trim(files[SessionFile(p)])]
            /\ pc' = [pc EXCEPT ![p] = "get"]
            /\ UNCHANGED err
       ELSE /\ err' = [err EXCEPT ![p] = FileMissing]
            /\ pc' = [pc EXCEPT ![p] = "done"]
            /\ UNCHANGED sessionId
    /\ UNCHANGED <<owner, writer>>
    /\ UNCHANGED saVars
    /\ UNCHANGED <<dirExists, files, srv, nextId, opts, newId, ret, obs, last>>

\* The test of line 56 reading a field the response does not have.
validatedNever(session) == FALSE
\* The test of line 56 accepting any response that did not throw.
validatedAlways(session) == TRUE
\* line 56: if (session.data?.id)
validated(session) == Truthy(DataId(session))

\* The get-by-id call without the try/catch around it: a thrown error reaches
\* the caller.
gocs_getNoCatch(p) ==
    /\ pc[p] = "get"
    /\ \E out \in GetOutcomes(sessionId[p]) :
          LET session == IF out = "ok" THEN Resp(sessionId[p]) ELSE Resp(Null)
              valid == out # "throw" /\ validated(session)
          IN  /\ obs' = [obs EXCEPT ![p].gets = @ + 1, ![p].getOut = out,
                                    ![p].live = @ \cup ({sessionId[p]} \cap srv)]
              /\ IF out = "throw"
                 THEN /\ err' = [err EXCEPT ![p] = ConnRefused]
                      /\ pc' = [pc EXCEPT ![p] = "done"]
                      /\ UNCHANGED ret
                 ELSE IF valid
                 THEN /\ ret' = [ret EXCEPT ![p] = sessionId[p]]
                      /\ pc' = [pc EXCEPT ![p] = "prompt"]
                      /\ UNCHANGED err
                 ELSE /\ pc' = [pc EXCEPT ![p] = "create"]
                      /\ UNCHANGED <<ret, err>>
    /\ UNCHANGED <<owner, writer>>
    /\ UNCHANGED saVars
    /\ UNCHANGED <<dirExists, files, srv, nextId, opts, sessionId, newId, last>>

\* lines 53-62: the get-by-id call, its answer and the catch around it.
gocs_get(p) ==
    /\ pc[p] = "get"
    /\ \E out \in GetOutcomes(sessionId[p]) :
          LET session == IF out = "ok" THEN Resp(sessionId[p]) ELSE Resp(Null)
              valid == out # "throw" /\ validated(session)
          IN  /\ obs' = [obs EXCEPT ![p].gets = @ + 1, ![p].getOut = out,
                                    ![p].live = @ \cup ({sessionId[p]} \cap srv)]
              /\ IF valid
                 THEN /\ ret' = [ret EXCEPT ![p] = sessionId[p]]
                      /\ pc' = [pc EXCEPT ![p] = "prompt"]
                 ELSE /\ pc' = [pc EXCEPT ![p] = "create"]
                      /\ UNCHANGED ret
    /\ UNCHANGED <<owner, writer>>
    /\ UNCHANGED saVars
    /\ UNCHANGED <<dirExists, files, srv, nextId, opts, sessionId, newId, err,
                   last>>

\* A variant without the check of line 70: whatever create answered is written.
gocs_createNoCheck(p) ==
    /\ pc[p] = "create"
    /\ nextId <= MaxIds
    /\ \E out \in CreateOutcomes :
          LET createRes == IF out = "ok" THEN Resp(SesId(nextId)) ELSE Resp(Null)
              id == IF out = "throw" THEN Null ELSE DataId(createRes)
          IN  /\ srv' = IF out = "ok" THEN srv \cup {SesId(nextId)} ELSE srv
              /\ obs' = [obs EXCEPT ![p].creates = @ + 1, ![p].createOut = out,
                                    ![p].live = @ \cup ({id} \cap srv')]
              /\ nextId' = IF out = "ok" THEN nextId + 1 ELSE nextId
              /\ newId' = [newId EXCEPT ![p] = id]
              /\ IF out = "throw"
                 THEN /\ err' = [err EXCEPT ![p] = ConnRefused]
                      /\ pc' = [pc EXCEPT ![p] = "done"]
                 ELSE /\ pc' = [pc EXCEPT ![p] = "write"]
                      /\ UNCHANGED err
    /\ UNCHANGED <<owner, writer>>
    /\ UNCHANGED saVars
    /\ UNCHANGED <<dirExists, files, opts, sessionId, ret, last>>

\* lines 66-72: the create call and the test of its answer (the server has
\* MaxIds IDs to assign).
gocs_create(p) ==
    /\ pc[p] = "create"
    /\ nextId <= MaxIds
    /\ \E out \in CreateOutcomes :
          LET createRes == IF out = "ok" THEN Resp(SesId(nextId)) ELSE Resp(Null)
              id == IF out = "throw" THEN Null ELSE DataId(createRes)
          IN  /\ srv' = IF out = "ok" THEN srv \cup {SesId(nextId)} ELSE srv
              /\ obs' = [obs EXCEPT ![p].creates = @ + 1, ![p].createOut = out,
                                    ![p].live = @ \cup ({id} \cap srv')]
              /\ nextId' = IF out = "ok" THEN nextId + 1 ELSE nextId
              /\ newId' = [newId EXCEPT ![p] = id]
              /\ IF out = "throw"
                 THEN /\ err' = [err EXCEPT ![p] = ConnRefused]
                      /\ pc' = [pc EXCEPT ![p] = "done"]
                 ELSE IF ~Truthy(id)
                 THEN /\ err' = [err EXCEPT ![p] = CreateFailed]
                      /\ pc' = [pc EXCEPT ![p] = "done"]
                 ELSE /\ pc' = [pc EXCEPT ![p] = "write"]
                      /\ UNCHANGED err
    /\ UNCHANGED <<owner, writer>>
    /\ UNCHANGED saVars
    /\ UNCHANGED <<dirExists, files, opts, sessionId, ret, last>>

\* A variant that opens the file exclusively: a record written in the meantime
\* is kept.
gocs_writeExclusive(p) ==
    /\ pc[p] = "write"
    /\ files' = IF SessionFile(p) \in DOMAIN files THEN files
                 ELSE WriteFile(files, SessionFile(p), newId[p])
    /\ owner' = WriteFile(owner, SessionFile(p),
                          [host |-> opts[p].host, port |-> opts[p].port])
    /\ writer' = WriteFile(writer, SessionFile(p), p)
    /\ obs' = [obs EXCEPT ![p].writes = @ + 1]
    /\ ret' = [ret EXCEPT ![p] = newId[p]]
    /\ pc' = [pc EXCEPT ![p] = "prompt"]
    /\ UNCHANGED saVars
    /\ UNCHANGED <<dirExists, srv, nextId, opts, sessionId, newId, err, last>>

\* lines 75-77: fs.writeFileSync(sessionFile, newId); return newId
gocs_write(p) ==
    /\ pc[p] = "write"
    /\ files' = WriteFile(files, SessionFile(p), newId[p])
    /\ owner' = WriteFile(owner, SessionFile(p),
                          [host |-> opts[p].host, port |-> opts[p].port])
    /\ writer' = WriteFile(writer, SessionFile(p), p)
    /\ obs' = [obs EXCEPT ![p].writes = @ + 1]
    /\ ret' = [ret EXCEPT ![p] = newId[p]]
    /\ pc' = [pc EXCEPT ![p] = "prompt"]
    /\ UNCHANGED saVars
    /\ UNCHANGED <<dirExists, srv, nextId, opts, sessionId, newId, err, last>>

\* lines 113-119: client.session.prompt with the resolved session ID.
prompt(p) ==
    /\ pc[p] = "prompt"
    /\ \E out \in PromptOutcomes :
          /\ obs' = [obs EXCEPT ![p].prompts = @ + 1]
          /\ err' = [err EXCEPT ![p] = IF out = "throw" THEN ConnRefused ELSE @]
    /\ pc' = [pc EXCEPT ![p] = "done"]
    /\ UNCHANGED <<owner, writer>>
    /\ UNCHANGED saVars
    /\ UNCHANGED <<dirExists, files, srv, nextId, opts, sessionId, newId, ret,
                   last>>

\* The invocation ends (main prints the result or the error) and the process
\* exits.
exit(p) ==
    /\ pc[p] = "done"
    /\ pc' = [pc EXCEPT ![p] = "idle"]
    /\ opts' = [opts EXCEPT ![p] = NoOpts]
    /\ sessionId' = [sessionId EXCEPT ![p] = Null]
    /\ newId' = [newId EXCEPT ![p] = Null]
    /\ ret' = [ret EXCEPT ![p] = Null]
    /\ err' = [err EXCEPT ![p] = NoError]
    /\ obs' = [obs EXCEPT ![p] = NoObs]
    /\ UNCHANGED <<owner, writer>>
    /\ UNCHANGED saVars
    /\ UNCHANGED <<dirExists, files, srv, nextId, last>>

\* The server loses a session (deleted by another client, or recycled).
ServerDelete(id) ==
    /\ id \in srv
    /\ srv' = srv \ {id}
    /\ UNCHANGED <<owner, writer>>
    /\ UNCHANGED saVars
    /\ UNCHANGED <<dirExists, files, nextId, pc, opts, sessionId, newId, ret,
                   err, obs, last>>

(* ------------------------------------- client-cached: list / delete / clear *)
\* s.replace(pat, rep) with a string pattern: the first occurrence only.
RECURSIVE ReplaceFirst(_, _, _)
ReplaceFirst(s, pat, rep) ==
    IF Len(s) < Len(pat) THEN s
    ELSE IF SubSeq(s, 1, Len(pat)) = pat
    THEN rep \o SubSeq(s, Len(pat) + 1, Len(s))
    ELSE <<Head(s)>> \o ReplaceFirst(Tail(s), pat, rep)

\* s.replace(/_/g, ":")
UnderscoresToColons(s) == [i \in 1..Len(s) |-> IF s[i] = "_" THEN ":" ELSE s[i]]

IsDigit(c) == \E i \in 1..10 : DigitChar[i] = c
RECURSIVE TrailingDigits(_)
\* How many digits end s.
TrailingDigits(s) ==
    IF s # <<>> /\ IsDigit(s[Len(s)])
    THEN 1 + TrailingDigits(SubSeq(s, 1, Len(s) - 1)) ELSE 0

\* s.replace(/:(\d+)$/, ":$1")
FormatHostPort(s) ==
    LET d == TrailingDigits(s)
        n == Len(s)
    IN  IF d >= 1 /\ n - d >= 1 /\ s[n - d] = ":"
        THEN SubSeq(s, 1, n - d - 1) \o <<":">> \o SubSeq(s, n - d + 1, n)
        ELSE s

\* lines 146-155: the entry listSessions builds for one file.
ListEntry(fs, file) ==
    LET serverName == UnderscoresToColons(ReplaceFirst(file, SessionSuffix, <<>>))
    IN  [sessionId |-> Trim(fs[file]),
         server |-> FormatHostPort(serverName),
         sessionFile |-> file]

\* fs.readdirSync: the names of the directory, in some order.
ReadDir(fs) ==
    {o \in [1..Cardinality(DOMAIN fs) -> DOMAIN fs] :
        \A i, j \in DOMAIN o : i # j => o[i] # o[j]}

\* The names of a listing that end with ".session", in the listing's order.
SessionFilesOf(order) == SelectSeq(order, LAMBDA f : EndsWith(f, SessionSuffix))

\* lines 135-160
listSessionsResult(fs, order) ==
    LET sel == SessionFilesOf(order)
    IN  [i \in 1..Len(sel) |-> ListEntry(fs, sel[i])]

listSessions ==
    /\ dirExists' = TRUE
    /\ \E order \in ReadDir(files) :
          last' = Finished([NoOp EXCEPT !.op = "list", !.before = files,
                                 !.listed = listSessionsResult(files, order)])
    /\ UNCHANGED <<files, srv, nextId, pc, opts, sessionId, newId, ret, err, obs>>
    /\ UNCHANGED <<owner, writer>>
    /\ UNCHANGED saVars

\* deleteSession reporting true whether or not the file existed.
deleteSessionAlwaysTrue(host, port) ==
    LET sessionFile == getSessionFilePath(host, port)
    IN  /\ files' = Unlink(files, {sessionFile})
        /\ owner' = Unlink(owner, {sessionFile})
        /\ writer' = Unlink(writer, {sessionFile})
        /\ last' = Finished([NoOp EXCEPT !.op = "delete", !.host = host,
                                         !.port = port, !.before = files,
                                         !.deleted = TRUE])
        /\ UNCHANGED <<dirExists, srv, nextId, pc, opts, sessionId, newId, ret,
                       err, obs>>
        /\ UNCHANGED saVars

\* lines 168-175
deleteSession(host, port) ==
    LET sessionFile == getSessionFilePath(host, port)
        exists == sessionFile \in DOMAIN files
    IN  /\ files' = IF exists THEN Unlink(files, {sessionFile}) ELSE files
        /\ owner' = Unlink(owner, {sessionFile})
        /\ writer' = Unlink(writer, {sessionFile})
        /\ last' = Finished([NoOp EXCEPT !.op = "delete", !.host = host,
                                         !.port = port, !.before = files,
                                         !.deleted = exists])
        /\ UNCHANGED <<dirExists, srv, nextId, pc, opts, sessionId, newId, ret,
                       err, obs>>
        /\ UNCHANGED saVars

\* The files clearAllSessions would unlink if it tested another suffix.
clearTargetsOtherSuffix(fs) ==
    {f \in DOMAIN fs : EndsWith(f, SessionSuffix \o <<"s">>)}
\* lines 189-196: the files clearAllSessions unlinks.
clearTargets(fs) == {f \in DOMAIN fs : EndsWith(f, SessionSuffix)}

\* lines 181-197
clearAllSessions ==
    /\ dirExists' = TRUE
    /\ files' = Unlink(files, clearTargets(files))
    /\ owner' = Unlink(owner, clearTargets(files))
    /\ writer' = Unlink(writer, clearTargets(files))
    /\ last' = Finished([NoOp EXCEPT !.op = "clear", !.before = files,
                                     !.count = Cardinality(clearTargets(files))])
    /\ UNCHANGED <<srv, nextId, pc, opts, sessionId, newId, ret, err, obs>>
    /\ UNCHANGED saVars

(* ------------------------------------------------- server-authoritative *)
Times == 0..MaxTime
LastSelector == <<"l", "a", "s", "t">>
\* The values of the --session option: none, empty, "last", or an ID.
Selectors == {Null, <<>>, LastSelector} \cup AllIds

\* A response of client.session.list / get / create: with data or without.
WithData(d) == [hasData |-> TRUE, data |-> d]
NoData == [hasData |-> FALSE, data |-> <<>>]

SessionOf(id) == [id |-> id, updatedAt |-> saSessions[id]]

\* The server's sessions as client.session.list may answer them: in any order.
ListAnswers ==
    {[i \in DOMAIN o |-> SessionOf(o[i])] :
        o \in {f \in [1..Cardinality(DOMAIN saSessions) -> DOMAIN saSessions] :
                  \A i, j \in DOMAIN f : i # j => f[i] # f[j]}}

\* x || 0 for a timestamp
OrZero(x) == IF x = 0 THEN 0 ELSE x

\* The comparator with its operands swapped (oldest first).
compareUpdatedAscending(a, b) == OrZero(a.updatedAt) - OrZero(b.updatedAt)
\* lines 30-32: the comparator, new Date(b.updatedAt || 0) - new Date(a.updatedAt || 0)
compareUpdated(a, b) == OrZero(b.updatedAt) - OrZero(a.updatedAt)

RECURSIVE InsertStable(_, _)
\* x, which followed every element of the sorted sequence, put in its place.
InsertStable(sorted, x) ==
    IF sorted = <<>> THEN <<x>>
    ELSE IF compareUpdated(Head(sorted), x) <= 0
    THEN <<Head(sorted)>> \o InsertStable(Tail(sorted), x)
    ELSE <<x>> \o sorted

RECURSIVE SortSessions(_)
\* Array.prototype.sort with the comparator above (a stable sort).
SortSessions(s) ==
    IF s = <<>> THEN <<>>
    ELSE InsertStable(SortSessions(SubSeq(s, 1, Len(s) - 1)), s[Len(s)])

\* lines 26-33: (res.data || []).sort(...)
SA_listSessions(res) == SortSessions(IF res.hasData THEN res.data ELSE <<>>)

\* lines 40-43, applied to the sorted list
getLatestSession(sessions) == IF Len(sessions) > 0 THEN sessions[1] ELSE NoSession

\* lines 51-58: res.data || null, and null when the call throws
getSession(res, threw) == IF ~threw /\ res.hasData THEN res.data ELSE NoSession

NotFound(sessionArg) == Thrown("", <<"Session không tồn tại: ">> \o sessionArg)

\* lines 134-150: which remote call resolveSession makes first.
resolveFirst(sessionArg, forceNew) ==
    IF forceNew THEN "create"
    ELSE IF Truthy(sessionArg) /\ sessionArg # LastSelector THEN "get"
    ELSE "list"

\* lines 166-182: the input check, then resolveSession up to its first call.
SA_sendToOpenCode(input, sessionArg, newSession) ==
    /\ saPc = "idle"
    /\ saOpts' = [input |-> input, sessionId |-> sessionArg,
                  newSession |-> newSession]
    /\ IF ~Truthy(input)
       THEN /\ saPc' = "done"
            /\ saErr' = InputRequired
       ELSE /\ saPc' = resolveFirst(sessionArg, newSession)
            /\ UNCHANGED saErr
    /\ UNCHANGED <<saSessions, saNextId, saSession, saObs>>
    /\ UNCHANGED cacheVars

\* getSession followed by a silent fall-back to the latest session when the
\* requested one is missing.
SA_getFallback ==
    /\ saPc = "get"
    /\ LET id == saOpts.sessionId
           present == id \in DOMAIN saSessions
       IN  \E out \in (IF present THEN {"ok", "throw"} ELSE {"nodata", "throw"}) :
              LET res == IF out = "ok" THEN WithData(SessionOf(id)) ELSE NoData
                  session == getSession(res, out = "throw")
              IN  /\ saObs' = [saObs EXCEPT !.gets = @ + 1, !.getOut = out,
                                            !.present = present]
                  /\ IF session = NoSession
                     THEN /\ saPc' = "list"
                          /\ UNCHANGED <<saSession, saErr>>
                     ELSE /\ saSession' = session
                          /\ saPc' = "prompt"
                          /\ UNCHANGED saErr
    /\ UNCHANGED <<saSessions, saNextId, saOpts>>
    /\ UNCHANGED cacheVars

\* lines 142-146: getSession and the test of its result.
SA_get ==
    /\ saPc = "get"
    /\ LET id == saOpts.sessionId
           present == id \in DOMAIN saSessions
       IN  \E out \in (IF present THEN {"ok", "throw"} ELSE {"nodata", "throw"}) :
              LET res == IF out = "ok" THEN WithData(SessionOf(id)) ELSE NoData
                  session == getSession(res, out = "throw")
              IN  /\ saObs' = [saObs EXCEPT !.gets = @ + 1, !.getOut = out,
                                            !.present = present]
                  /\ IF session = NoSession
                     THEN /\ saErr' = NotFound(id)
                          /\ saPc' = "done"
                          /\ UNCHANGED saSession
                     ELSE /\ saSession' = session
                          /\ saPc' = "prompt"
                          /\ UNCHANGED saErr
    /\ UNCHANGED <<saSessions, saNextId, saOpts>>
    /\ UNCHANGED cacheVars

\* getLatestSession whose null result is handed on instead of creating a
\* session.
SA_latestNoCreate ==
    /\ saPc = "list"
    /\ \E out \in {"ok", "nodata", "throw"} :
          \E data \in (IF out = "ok" THEN ListAnswers ELSE {<<>>}) :
             LET res == IF out = "ok" THEN WithData(data) ELSE NoData
                 latest == getLatestSession(SA_listSessions(res))
             IN  /\ saObs' = [saObs EXCEPT !.lists = @ + 1, !.listOut = out,
                                           !.listData = data]
                 /\ IF out = "throw"
                    THEN /\ saErr' = ConnRefused
                         /\ saPc' = "done"
                         /\ UNCHANGED saSession
                    ELSE /\ saSession' = latest
                         /\ saPc' = "prompt"
                         /\ UNCHANGED saErr
    /\ UNCHANGED <<saSessions, saNextId, saOpts>>
    /\ UNCHANGED cacheVars

\* lines 150-153: getLatestSession and the test of its result.
SA_latest ==
    /\ saPc = "list"
    /\ \E out \in {"ok", "nodata", "throw"} :
          \E data \in (IF out = "ok" THEN ListAnswers ELSE {<<>>}) :
             LET res == IF out = "ok" THEN WithData(data) ELSE NoData
                 latest == getLatestSession(SA_listSessions(res))
             IN  /\ saObs' = [saObs EXCEPT !.lists = @ + 1, !.listOut = out,
                                           !.listData = data]
                 /\ IF out = "throw"
                    THEN /\ saErr' = ConnRefused
                         /\ saPc' = "done"
                         /\ UNCHANGED saSession
                    ELSE IF latest # NoSession
                    THEN /\ saSession' = latest
                         /\ saPc' = "prompt"
                         /\ UNCHANGED saErr
                    ELSE /\ saPc' = "create"
                         /\ UNCHANGED <<saSession, saErr>>
    /\ UNCHANGED <<saSessions, saNextId, saOpts>>
    /\ UNCHANGED cacheVars

\* lines 66-74: createSession; the new session's updatedAt is the server's.
createSession(res, threw) ==
    IF threw THEN [err |-> ConnRefused, session |-> NoSession]
    ELSE IF ~res.hasData \/ ~Truthy(res.data.id)
    THEN [err |-> CreateFailed, session |-> NoSession]
    ELSE [err |-> NoError, session |-> res.data]

\* lines 135-137 and 156-158: createSession and the return of its session
\* (the server has MaxIds IDs to assign).
SA_create ==
    /\ saPc = "create"
    /\ saNextId <= MaxIds
    /\ \E out \in {"ok", "nodata", "throw"}, t \in Times :
          LET new == [id |-> SesId(saNextId), updatedAt |-> t]
              res == IF out = "ok" THEN WithData(new) ELSE NoData
              r == createSession(res, out = "throw")
          IN  /\ (out # "ok" => t = 0)
              /\ saSessions' = IF out = "ok"
                               THEN WriteFile(saSessions, new.id, t) ELSE saSessions
              /\ saNextId' = IF out = "ok" THEN saNextId + 1 ELSE saNextId
              /\ saObs' = [saObs EXCEPT !.creates = @ + 1, !.createOut = out,
                                        !.created = IF out = "ok" THEN new ELSE @]
              /\ saErr' = r.err
              /\ saSession' = r.session
              /\ saPc' = IF r.err.thrown THEN "done" ELSE "prompt"
    /\ UNCHANGED saOpts
    /\ UNCHANGED cacheVars

\* lines 185-191: client.session.prompt with the resolved session; a prompt
\* the server accepts is activity of that session (its updatedAt moves).
SA_prompt ==
    /\ saPc = "prompt"
    /\ \E out \in PromptOutcomes, t \in Times :
          LET id == saSession.id
              accepted == out = "ok" /\ id \in DOMAIN saSessions
          IN  /\ (accepted => t >= saSessions[id])
              /\ (~accepted => t = 0)
              /\ saErr' = IF accepted THEN saErr ELSE ConnRefused
              /\ saSessions' = IF accepted THEN [saSessions EXCEPT ![id] = t]
                               ELSE saSessions
    /\ saObs' = [saObs EXCEPT !.prompts = @ + 1]
    /\ saPc' = "done"
    /\ UNCHANGED <<saNextId, saOpts, saSession>>
    /\ UNCHANGED cacheVars

\* The invocation ends and the process exits.
SA_exit ==
    /\ saPc = "done"
    /\ saPc' = "idle"
    /\ saOpts' = NoSaOpts
    /\ saSession' = NoSession
    /\ saErr' = NoError
    /\ saObs' = NoSaObs
    /\ UNCHANGED <<saSessions, saNextId>>
    /\ UNCHANGED cacheVars

\* Another client of the server creates a session.
SA_ServerCreate(t) ==
    /\ saNextId <= MaxIds
    /\ saSessions' = WriteFile(saSessions, SesId(saNextId), t)
    /\ saNextId' = saNextId + 1
    /\ UNCHANGED <<saPc, saOpts, saSession, saErr, saObs>>
    /\ UNCHANGED cacheVars

\* A session of the server disappears.
SA_ServerDelete(id) ==
    /\ id \in DOMAIN saSessions
    /\ saSessions' = Unlink(saSessions, {id})
    /\ UNCHANGED <<saNextId, saPc, saOpts, saSession, saErr, saObs>>
    /\ UNCHANGED cacheVars

(* ------------------------------------------------------------ specification *)
\* No invocation of sendToOpenCode is in flight.
Quiet == \A p \in Procs : pc[p] = "idle"

\* One invocation at a time (section 5: sequential execution per invocation),
\* against a server whose sessions may disappear at any moment.
Next ==
    \/ \E input \in Inputs, host \in Hosts, port \in Ports, newSession \in BOOLEAN :
          sendToOpenCode(1, input, host, port, newSession)
    \/ gocs_exists(1)
    \/ gocs_read(1)
    \/ gocs_get(1)
    \/ gocs_create(1)
    \/ gocs_write(1)
    \/ prompt(1)
    \/ exit(1)
    \/ (Quiet /\ listSessions)
    \/ (Quiet /\ \E host \in Hosts, port \in Ports : deleteSession(host, port))
    \/ (Quiet /\ clearAllSessions)
    \/ \E id \in srv : ServerDelete(id)

Spec == Init /\ [][Next]_vars

\* The server-authoritative tool: one invocation at a time, against a server
\* that other clients use as well.
NextSA ==
    \/ \E input \in Inputs, sessionArg \in Selectors, newSession \in BOOLEAN :
          SA_sendToOpenCode(input, sessionArg, newSession)
    \/ SA_get
    \/ SA_latest
    \/ SA_create
    \/ SA_prompt
    \/ SA_exit
    \/ \E t \in Times : SA_ServerCreate(t)
    \/ \E id \in AllIds : SA_ServerDelete(id)

SpecSA == Init /\ [][NextSA]_vars

\* The client-cached tool with its invocations running side by side: each is
\* a process of its own, and nothing orders their file and server accesses
\* (section 5). The invocations address the default endpoint; --clear-sessions
\* runs between them and empties the cache again.
NextRace ==
    \/ \E p \in Procs, input \in Inputs, newSession \in BOOLEAN :
          sendToOpenCode(p, input, DEFAULT_HOST, DEFAULT_PORT, newSession)
    \/ \E p \in Procs : gocs_exists(p)
    \/ \E p \in Procs : gocs_read(p)
    \/ \E p \in Procs : gocs_get(p)
    \/ \E p \in Procs : gocs_create(p)
    \/ \E p \in Procs : gocs_write(p)
    \/ \E p \in Procs : prompt(p)
    \/ \E p \in Procs : exit(p)
    \/ (Quiet /\ clearAllSessions)
    \/ \E id \in srv : ServerDelete(id)

SpecRace == Init /\ [][NextRace]_vars

(* ------------------------------------------------------------------ claims *)
\* An invocation that has entered getOrCreateSession.
InCall(p) == pc[p] # "idle" /\ Truthy(opts[p].input)
\* getOrCreateSession returned an ID / threw / ended either way.
GocsReturned(p) == pc[p] \in {"prompt", "done"} /\ ret[p] # Null
GocsThrew(p) == InCall(p) /\ pc[p] = "done" /\ ret[p] = Null
GocsEnded(p) == GocsReturned(p) \/ GocsThrew(p)
\* The endpoint of the call had a record when the call began, and what it held.
HadRecord(p) == SessionFile(p) \in DOMAIN obs[p].files0
Cached0(p) == Trim(obs[p].files0[SessionFile(p)])
\* The files after the call are the files before it with the endpoint's record
\* replaced by id.
Overwritten(p, id) == files = WriteFile(obs[p].files0, SessionFile(p), id)

\* C1: without force-new, when the endpoint's record holds an ID and get-by-id
\* answers with the session, getOrCreateSession returns that ID at once, makes
\* no create call and writes nothing: the files are those before the call.
C1_ValidCachedIdReused ==
    \A p \in Procs :
        (InCall(p) /\ ~opts[p].newSession /\ HadRecord(p) /\ obs[p].getOut = "ok")
        => /\ GocsReturned(p)
           /\ ret[p] = Cached0(p)
           /\ obs[p].creates = 0
           /\ obs[p].writes = 0
           /\ files = obs[p].files0

C1_Witness ==
    \E p \in Procs :
        /\ InCall(p) /\ ~opts[p].newSession /\ HadRecord(p)
        /\ obs[p].getOut = "ok"
        /\ pc[p] = "prompt"
        /\ ret[p] = Cached0(p)
        /\ Cardinality(DOMAIN files) = 2

\* The case C2 is about: no force-new, a record for the endpoint, and a
\* get-by-id that threw or answered without an ID; the call has ended.
StaleCase(p) ==
    /\ InCall(p) /\ ~opts[p].newSession /\ HadRecord(p)
    /\ obs[p].getOut \in {"noid", "throw"}
    /\ GocsEnded(p)

\* C2 as stated: in the stale case getOrCreateSession makes one create call,
\* overwrites the record with the new ID, returns it and raises no exception.
\* (Stated here for the records whose ID the server did not hold when asked.)
C2_StaleAlwaysReplaced ==
    \A p \in Procs :
        (StaleCase(p) /\ Cached0(p) \notin obs[p].live)
        => /\ GocsReturned(p)
           /\ ~err[p].thrown
           /\ obs[p].creates = 1
           /\ ret[p] = newId[p]
           /\ Overwritten(p, ret[p])

\* C2, amended: in the stale case getOrCreateSession makes exactly one create
\* call and the failed validation raises nothing; when create answers with an
\* ID the record is overwritten with it and it is returned; when create throws
\* or answers without an ID, that error reaches the caller and the files are
\* those before the call.
C2_StaleReplacedWhenCreateSucceeds ==
    \A p \in Procs :
        StaleCase(p)
        => /\ obs[p].creates = 1
           /\ obs[p].createOut = "ok"
              => /\ GocsReturned(p)
                 /\ ret[p] = newId[p]
                 /\ ret[p] # Cached0(p)
                 /\ Overwritten(p, ret[p])
           /\ obs[p].createOut # "ok"
              => /\ GocsThrew(p)
                 /\ err[p] \in {ConnRefused, CreateFailed}
                 /\ files = obs[p].files0

C2_Witness ==
    \E p \in Procs :
        /\ StaleCase(p)
        /\ obs[p].getOut = "throw"
        /\ obs[p].createOut = "ok"
        /\ pc[p] = "prompt"
        /\ files[SessionFile(p)] = ret[p]
        /\ Cached0(p) # ret[p]

\* C3: without force-new and with no record for the endpoint,
\* getOrCreateSession makes no get-by-id call and exactly one create call, and
\* the ID create answered with is the content of the endpoint's record
\* afterwards (the other files untouched) and the value returned.
C3_NoRecordCreatesOnce ==
    \A p \in Procs :
        (InCall(p) /\ ~opts[p].newSession /\ ~HadRecord(p))
        => /\ obs[p].gets = 0
           /\ obs[p].creates <= 1
           /\ GocsEnded(p)
              => /\ obs[p].creates = 1
                 /\ obs[p].createOut = "ok"
                    => /\ GocsReturned(p)
                       /\ ret[p] = newId[p]
                       /\ ret[p] \in AllIds
                       /\ Overwritten(p, ret[p])

C3_Witness ==
    \E p \in Procs :
        /\ InCall(p) /\ ~opts[p].newSession /\ ~HadRecord(p)
        /\ pc[p] = "prompt"
        /\ obs[p].createOut = "ok"
        /\ DOMAIN obs[p].files0 # {}
        /\ files[SessionFile(p)] = ret[p]

\* C4: with force-new, getOrCreateSession makes no get-by-id call and exactly
\* one create call whatever the endpoint's record was, and the ID create
\* answered with replaces the record and is the value returned.
C4_ForceNewAlwaysCreates ==
    \A p \in Procs :
        (InCall(p) /\ opts[p].newSession)
        => /\ obs[p].gets = 0
           /\ obs[p].creates <= 1
           /\ GocsEnded(p)
              => /\ obs[p].creates = 1
                 /\ obs[p].createOut = "ok"
                    => /\ GocsReturned(p)
                       /\ ret[p] = newId[p]
                       /\ ret[p] \in AllIds
                       /\ Overwritten(p, ret[p])

\* Force-new over a record whose session the server still holds.
C4_Witness ==
    \E p \in Procs :
        /\ InCall(p) /\ opts[p].newSession /\ HadRecord(p)
        /\ Cached0(p) \in srv
        /\ pc[p] = "prompt"
        /\ ret[p] # Cached0(p)
        /\ files[SessionFile(p)] = ret[p]

\* C5: an ID getOrCreateSession returns was held by the server when the
\* server answered about it within this call: either it is the cached ID and
\* get-by-id answered with the session, or it is the ID create just answered
\* with. The server may have dropped the session since.
C5_ReturnedIdConfirmedInCall ==
    \A p \in Procs :
        GocsReturned(p)
        => /\ ret[p] \in obs[p].live
           /\ \/ ret[p] = sessionId[p] /\ obs[p].getOut = "ok" /\ obs[p].creates = 0
              \/ ret[p] = newId[p] /\ obs[p].createOut = "ok"

\* A validated cached ID whose session the server dropped after validating.
C5_Witness ==
    \E p \in Procs :
        /\ GocsReturned(p)
        /\ ret[p] = sessionId[p]
        /\ obs[p].getOut = "ok"
        /\ ret[p] \notin srv

\* C9: clearAllSessions leaves no file and reports the number of files there
\* were, and a listSessions that directly follows it reports nothing.
C9_ClearRemovesAll ==
    /\ last.cur.op = "clear"
       => /\ DOMAIN files = {}
          /\ last.cur.count = Cardinality(DOMAIN last.cur.before)
    /\ (last.cur.op = "list" /\ last.prev.op = "clear")
       => /\ last.cur.listed = <<>>
          /\ DOMAIN files = {}

C9_Witness ==
    /\ last.cur.op = "list"
    /\ last.prev.op = "clear"
    /\ last.prev.count = 2

\* A step of deleteSession.
DeleteStep == last'.cur.op = "delete" /\ last' # last

\* C10: deleteSession(host, port) reports true exactly when the endpoint's
\* file existed, leaves no file for the endpoint and every other file as it
\* was, and touches neither the server nor an invocation in flight.
C10_DeleteReportsExistence ==
    [][DeleteStep =>
        LET f == getSessionFilePath(last'.cur.host, last'.cur.port)
        IN  /\ last'.cur.deleted = (f \in DOMAIN files)
            /\ f \notin DOMAIN files'
            /\ files' = Unlink(files, {f})
            /\ srv' = srv /\ nextId' = nextId
            /\ obs' = obs /\ err' = err /\ pc' = pc]_vars

\* deleteSession for an endpoint without a record, other records being there.
C10_Witness ==
    /\ last.cur.op = "delete"
    /\ ~last.cur.deleted
    /\ DOMAIN last.cur.before # {}
    /\ files = last.cur.before

(* ------------------------------------ claims, server-authoritative variant *)
SaInCall == saPc # "idle" /\ Truthy(saOpts.input)
\* An explicit session ID was given (and force-new was not).
SaExplicit ==
    /\ SaInCall /\ ~saOpts.newSession
    /\ Truthy(saOpts.sessionId) /\ saOpts.sessionId # LastSelector
\* No selector, or "last" (and force-new was not).
SaLatest ==
    /\ SaInCall /\ ~saOpts.newSession
    /\ ~(Truthy(saOpts.sessionId) /\ saOpts.sessionId # LastSelector)
SaEnded == saPc \in {"prompt", "done"}
Listed == {saObs.listData[i] : i \in DOMAIN saObs.listData}

\* C6: with an explicit session ID and no force-new, resolveSession makes no
\* list and no create call; when the server does not hold that ID it throws
\* the Not-Found error whose message ends with the ID, returns no session, and
\* no prompt is submitted.
C6_ExplicitMissingNotFound ==
    /\ SaExplicit => saObs.lists = 0 /\ saObs.creates = 0
    /\ (SaExplicit /\ saObs.gets = 1 /\ ~saObs.present)
       => /\ saPc = "done"
          /\ saErr = NotFound(saOpts.sessionId)
          /\ EndsWith(saErr.message, saOpts.sessionId)
          /\ saSession = NoSession
          /\ saObs.prompts = 0

\* The ID is missing while the server holds other sessions.
C6_Witness ==
    /\ SaExplicit /\ saObs.gets = 1 /\ ~saObs.present
    /\ saObs.getOut = "nodata"
    /\ saPc = "done"
    /\ DOMAIN saSessions # {}

\* C7: with no selector or "last", no force-new, and a list call answered with
\* at least one session, resolveSession returns one of the listed sessions
\* whose updatedAt no listed session exceeds, and makes no create call.
C7_LatestIsMostRecent ==
    (SaLatest /\ saObs.listOut = "ok" /\ saObs.listData # <<>>)
    => /\ SaEnded
       /\ saSession \in Listed
       /\ \A s \in Listed : saSession.updatedAt >= s.updatedAt
       /\ saObs.creates = 0

\* The most recent session is not the first of the answer.
C7_Witness ==
    /\ SaLatest /\ saObs.listOut = "ok"
    /\ Len(saObs.listData) >= 2
    /\ saPc = "prompt"
    /\ saObs.listData[1].updatedAt < saSession.updatedAt

\* C8: with no selector or "last", no force-new, and a list call answered with
\* no session, resolveSession makes exactly one create call, and the session
\* create answered with is the one returned.
C8_EmptyDirectoryCreatesOnce ==
    (SaLatest /\ saObs.listOut = "ok" /\ saObs.listData = <<>>)
    => /\ saObs.creates <= 1
       /\ SaEnded
          => /\ saObs.creates = 1
             /\ saObs.createOut = "ok"
                => /\ saSession = saObs.created
                   /\ saSession.id \in AllIds

C8_Witness ==
    /\ SaLatest /\ saObs.listOut = "ok" /\ saObs.listData = <<>>
    /\ saObs.createOut = "ok"
    /\ saPc = "prompt"
    /\ saSession = saObs.created

(* ------------------------------------------- claims, client-cached, continued *)
\* `${host}:${port}`: the endpoint as the tool prints it (the server field of
\* sendToOpenCode's result).
EndpointName(e) == e.host \o <<":">> \o Digits(e.port)

\* C11: listSessions reports exactly one entry per file, each with the file's
\* content as sessionId, and with the endpoint that getOrCreateSession wrote
\* the file for, as host:port, as server.
C11_ListRoundTripsEndpoint ==
    last.cur.op = "list"
    => LET fs == last.cur.before
           L == last.cur.listed
       IN  /\ Len(L) = Cardinality(DOMAIN fs)
           /\ \A f \in DOMAIN fs :
                 Cardinality({i \in DOMAIN L : L[i].sessionFile = f}) = 1
           /\ \A i \in DOMAIN L :
                 /\ L[i].sessionFile \in DOMAIN fs
                 /\ L[i].sessionId = fs[L[i].sessionFile]
                 /\ L[i].server = EndpointName(owner[L[i].sessionFile])

\* The endpoint of invocation p.
EndpointOf(p) == [host |-> opts[p].host, port |-> opts[p].port]
\* This step is the file read of invocation p (line 52).
ReadStep(p) == pc[p] = "read" /\ pc'[p] = "get"
\* This step removed file f, or changed its content or its writer.
Touched(f) ==
    \/ f \notin DOMAIN files'
    \/ files'[f] # files[f]
    \/ owner'[f] # owner[f]
\* The endpoint a step that touches f acts for: the one deleteSession was
\* called with, or the one whose getOrCreateSession wrote f.
ActingEndpoint(f) ==
    IF DeleteStep THEN [host |-> last'.cur.host, port |-> last'.cur.port]
    ELSE owner'[f]

\* C12: records of distinct endpoints are independent: a getOrCreateSession
\* for endpoint E reads only a file written for E, and a getOrCreateSession or
\* deleteSession for E overwrites or removes only a file written for E.
\* (clearAllSessions, which is for no endpoint, is left out.)
C12_EndpointsIndependent ==
    [][/\ \A p \in Procs :
             ReadStep(p) => owner[SessionFile(p)] = EndpointOf(p)
       /\ last'.cur.op # "clear"
          => \A f \in DOMAIN files :
                Touched(f) => ActingEndpoint(f) = owner[f]]_vars

(* ------------------------- claims, server-authoritative variant, continued *)
\* A remote call of resolveSession threw.
SaRemoteFailure ==
    \/ saObs.getOut = "throw"
    \/ saObs.listOut = "throw"
    \/ saObs.createOut = "throw"

\* C13: when a remote call of resolveSession (get-by-id, list or create)
\* throws, the invocation ends with that same error (here the transport
\* failure, code ECONNREFUSED), with no session and no prompt.
C13_RemoteFailurePropagates ==
    (SaInCall /\ SaRemoteFailure)
    => /\ saPc = "done"
       /\ saErr = ConnRefused
       /\ saSession = NoSession
       /\ saObs.prompts = 0

(* --------------------------------------- claims, concurrent invocations *)
\* Both invocations are calls without force-new for one endpoint, and each
\* found no record when it looked: neither had written when the other looked.
RaceCase ==
    /\ \A p \in Procs :
          /\ InCall(p) /\ ~opts[p].newSession
          /\ pc[p] \notin {"exists", "read", "get"}
          /\ ~obs[p].had
    /\ SessionFile(1) = SessionFile(2)

\* C14: two getOrCreateSession calls without force-new for one endpoint that
\* both found no record each make one create call and no get-by-id call; once
\* both have ended with an ID from create, the two IDs differ, each call has
\* returned the ID it created, and the endpoint's record holds one ID, the one
\* of the call that wrote last.
C14_RaceLastWriterWins ==
    RaceCase
    => /\ \A p \in Procs : obs[p].gets = 0 /\ obs[p].creates <= 1
       /\ (\A p \in Procs : GocsEnded(p) /\ obs[p].createOut = "ok")
          => LET f == SessionFile(1)
             IN  /\ newId[1] # newId[2]
                 /\ \A p \in Procs : GocsReturned(p) /\ ret[p] = newId[p]
                 /\ f \in DOMAIN files
                 /\ files[f] \in AllIds
                 /\ writer[f] \in Procs
                 /\ files[f] = newId[writer[f]]

\* Both calls created; the first to create was the last to write.
C14_Witness ==
    /\ RaceCase
    /\ \A p \in Procs : pc[p] = "prompt" /\ obs[p].createOut = "ok"
    /\ ret[1] = SesId(1)
    /\ ret[2] = SesId(2)
    /\ files[SessionFile(1)] = SesId(1)

(* ------------------------------------------- claims, client-cached, errors *)
\* The create call of this invocation threw or answered without an ID.
CreateUnusable(p) == InCall(p) /\ obs[p].createOut \in {"noid", "throw"}

\* C15: when create answers without an ID, or throws, getOrCreateSession ends
\* with an error (the creation failure, or the error create threw), nothing is
\* written, the files are exactly those before the call (no record for an
\* endpoint that had none, a stale record kept as it was) and no prompt is
\* submitted.
C15_CreateFailureLeavesCache ==
    \A p \in Procs :
        CreateUnusable(p)
        => /\ GocsThrew(p)
           /\ err[p] = IF obs[p].createOut = "noid" THEN CreateFailed ELSE ConnRefused
           /\ obs[p].writes = 0
           /\ files = obs[p].files0
           /\ HadRecord(p) <=> SessionFile(p) \in DOMAIN files
           /\ obs[p].prompts = 0

\* A stale record: validation failed, then create answered without an ID.
C15_Witness ==
    \E p \in Procs :
        /\ StaleCase(p)
        /\ obs[p].createOut = "noid"
        /\ err[p] = CreateFailed
        /\ files[SessionFile(p)] = obs[p].files0[SessionFile(p)]

====
